---- MODULE Spec2Model ----
(***************************************************************************)
(* A model of src/core.ts: reactive proxies over a tree of plain objects,  *)
(* the lazily invalidated snapshot cache, and the subscription engine.     *)
(*                                                                         *)
(* Plain JavaScript objects (raw objects and snapshots alike) live in one  *)
(* heap; a proxy is named by the heap object it wraps (core.ts keeps at    *)
(* most one proxy per target in proxyCache).  The module's globals are the *)
(* variables of the same name.                                             *)
(***************************************************************************)
EXTENDS Integers, Sequences, FiniteSets, TLC

\* ------------------------------------------------------------------ bounds
MaxHeap == 8          \* plain objects ever allocated (raw objects and snapshots)
MaxWrites == 2        \* writing operations (assignments, deletes, pushes, applies)
MaxArr == 2           \* longest array
MaxSubs == 2          \* subscribe calls

\* ------------------------------------------------------------------ values
\* A JavaScript value: a primitive, a plain object (by heap address) or a proxy.
Undefined == [t |-> "undefined", id |-> 0, s |-> ""]
Num(n) == [t |-> "number", id |-> n, s |-> ""]
Str(x) == [t |-> "string", id |-> 0, s |-> x]
Obj(i) == [t |-> "object", id |-> i, s |-> ""]
Proxy(p) == [t |-> "proxy", id |-> p, s |-> ""]

\* Property keys: record keys, array indices, "length", and the OWN_KEYS symbol.
RecordKeys == {"a", "b", "key"}
IndexKey(n) == <<"0", "1", "2", "3", "4", "5">>[n + 1]
IndexKeys == {IndexKey(n) : n \in 0..MaxArr}
IndexOf(key) == CHOOSE n \in 0..MaxArr : IndexKey(n) = key
AllKeys == RecordKeys \cup IndexKeys
OWN_KEYS == "Symbol(ownKeys)"
TrackedKeys == AllKeys \cup {"length", OWN_KEYS}

Range(seq) == {seq[i] : i \in 1..Len(seq)}
SeqAdd(seq, x) == IF x \in Range(seq) THEN seq ELSE Append(seq, x)
SeqDelete(seq, x) == SelectSeq(seq, LAMBDA y : y # x)

\* ------------------------------------------------------- plain objects
\* A plain object: its own enumerable keys in JavaScript's order (array
\* indices ascending, then the other keys in insertion order), their values,
\* whether it is an array (then "length" is an own property too), whether
\* Object.freeze was applied to it, and, for a snapshot, the proxy it was
\* taken of (a history field; the code does not keep it).
NoProps == [k \in AllKeys |-> Undefined]
NewObject(isArr, keys, val, length) ==
    [arr |-> isArr, keys |-> keys, val |-> val, length |-> length,
     frozen |-> FALSE, of |-> 0]

HasOwn(o, key) == key \in Range(o.keys) \/ (o.arr /\ key = "length")

Reflect_get(o, key) ==
    IF o.arr /\ key = "length" THEN Num(o.length)
    ELSE IF key \in Range(o.keys) THEN o.val[key]
    ELSE Undefined

\* OrdinaryOwnPropertyKeys order: a new index key goes before the first
\* larger index key or the first non-index key; any other key goes last.
InsertKey(keys, key) ==
    IF key \notin IndexKeys THEN Append(keys, key)
    ELSE LET before == {i \in 1..Len(keys) :
                            keys[i] \in IndexKeys /\ IndexOf(keys[i]) < IndexOf(key)}
             n == Cardinality(before)
         IN  SubSeq(keys, 1, n) \o <<key>> \o SubSeq(keys, n + 1, Len(keys))

\* Reflect.set on a plain object; ok is its boolean result.
Reflect_set(o, key, v) ==
    IF o.frozen THEN [o |-> o, ok |-> FALSE]
    ELSE IF o.arr /\ key = "length"
    THEN IF v.t # "number" THEN [o |-> o, ok |-> FALSE]
         ELSE LET gone == {k \in Range(o.keys) :
                               k \in IndexKeys /\ IndexOf(k) >= v.id}
              IN  [o |-> [o EXCEPT
                            !.keys = SelectSeq(@, LAMBDA k : k \notin gone),
                            !.val = [k \in AllKeys |->
                                        IF k \in gone THEN Undefined ELSE @[k]],
                            !.length = v.id],
                   ok |-> TRUE]
    ELSE IF key \in Range(o.keys)
    THEN [o |-> [o EXCEPT !.val[key] = v], ok |-> TRUE]
    ELSE [o |-> [o EXCEPT
                    !.keys = InsertKey(@, key),
                    !.val[key] = v,
                    !.length = IF o.arr /\ key \in IndexKeys /\ IndexOf(key) >= @
                               THEN IndexOf(key) + 1 ELSE @],
          ok |-> TRUE]

Reflect_deleteProperty(o, key) ==
    IF key \notin Range(o.keys) THEN [o |-> o, ok |-> ~(o.arr /\ key = "length")]
    ELSE IF o.frozen THEN [o |-> o, ok |-> FALSE]
    ELSE [o |-> [o EXCEPT !.keys = SeqDelete(@, key), !.val[key] = Undefined],
          ok |-> TRUE]

\* snapshot[key] on a value that is no proxy: ok is FALSE for the TypeError
\* that a property read of undefined throws.
PropertyOf(g, value, key) ==
    CASE value.t = "object" -> [v |-> Reflect_get(g.heap[value.id], key), ok |-> TRUE]
      [] value.t = "string" ->
            [v |-> IF key = "0" THEN value
                   ELSE IF key = "length" THEN Num(1) ELSE Undefined,
             ok |-> TRUE]
      [] value.t = "undefined" -> [v |-> Undefined, ok |-> FALSE]
      [] OTHER -> [v |-> Undefined, ok |-> TRUE]

\* Object.keys(value) on a value that is no proxy (strings are one character
\* long here); ok is FALSE for the TypeError on undefined.
ObjectKeys(g, value) ==
    CASE value.t = "object" -> [v |-> g.heap[value.id].keys, ok |-> TRUE]
      [] value.t = "string" -> [v |-> <<"0">>, ok |-> TRUE]
      [] value.t = "undefined" -> [v |-> <<>>, ok |-> FALSE]
      [] OTHER -> [v |-> <<>>, ok |-> TRUE]

\* ------------------------------------------------------------- proxies
\* The globals g: heap (the plain objects), proxies (the target of every proxy
\* made by `new Proxy`, in order of creation: proxy p is Proxy(p)), and the
\* module's tables.  The tables keyed by a proxy are sequences indexed by its
\* number: makeReactiveWithParent sets all of them when it makes a proxy.
NullSnapshot == 0
NullParent == 0

\* The plain object behind a proxy (through the proxies it may wrap).
RECURSIVE RawId(_, _)
RawId(g, proxy) ==
    LET target == g.proxies[proxy]
    IN  IF target.t = "object" THEN target.id ELSE RawId(g, target.id)

\* A variant that does not recognise snapshots.
isMutableSnapshot(g, object) == object.t \in {"object", "proxy"}

\* Determine if an object can/should be wrapped in a proxy
isMutable(g, object) ==
    /\ object.t \in {"object", "proxy"}
    /\ ~(object.t = "object" /\ object.id \in g.snapshotsSet)

RECURSIVE invalidateSnapshots(_, _)
\* A variant that tombstones the written proxy alone and leaves its parents'
\* snapshots in place.
invalidateSnapshotsShallow(g, proxy) ==
    [g EXCEPT !.snapshotsCache[proxy] = NullSnapshot]

\* A variant that tombstones every proxy, whatever was written.
invalidateSnapshotsAll(g, proxy) ==
    [g EXCEPT !.snapshotsCache =
                 SubSeq([p \in DOMAIN g.snapshotsCache |-> NullSnapshot],
                        1, Len(g.snapshotsCache))]

\* Invalidate the snapshot of a proxy and all its parents
invalidateSnapshots(g, proxy) ==
    IF g.snapshotsCache[proxy] = NullSnapshot
    THEN g
    ELSE LET g1 == [g EXCEPT !.snapshotsCache[proxy] = NullSnapshot]
             parentProxy == g.parentProxyCache[proxy]
         IN  IF parentProxy # NullParent
             THEN invalidateSnapshots(g1, parentProxy)
             ELSE g1

markCurrentCallbacks(g, proxy, key) ==
    [g EXCEPT
        !.callbacksCache[proxy][key] =
            LET add[i \in 0..Len(g.currentCallbacks)] ==
                    IF i = 0 THEN g.callbacksCache[proxy][key]
                    ELSE SeqAdd(add[i - 1], g.currentCallbacks[i])
            IN  add[Len(g.currentCallbacks)],
        !.callbackSubscriptionsCache =
            [c \in DOMAIN @ |->
                IF c \in Range(g.currentCallbacks)
                THEN @[c] \cup {<<proxy, key>>} ELSE @[c]]]

invalidateCallbacks(g, proxy, key) ==
    LET callbacksSet == g.callbacksCache[proxy][key]
        add[i \in 0..Len(callbacksSet)] ==
            IF i = 0 THEN g.invalidatedCallbacks
            ELSE SeqAdd(add[i - 1], callbacksSet[i])
    IN  [g EXCEPT !.invalidatedCallbacks = add[Len(callbacksSet)],
                  !.dirty = @ \cup Range(callbacksSet)]

\* A variant that does not look the value up in proxyCache.
makeReactiveWithParentUncached(g, value, parentProxy) ==
    IF ~isMutable(g, value) THEN [g |-> g, v |-> value]
    ELSE LET proxy == Len(g.proxies) + 1
         IN  [g |-> [g EXCEPT
                        !.proxies = Append(@, value),
                        !.proxyCache = (value :> proxy) @@ @,
                        !.parentProxyCache = Append(@, parentProxy),
                        !.snapshotsCache = Append(@, NullSnapshot),
                        !.callbacksCache =
                            Append(@, [k \in TrackedKeys |-> <<>>])],
              v |-> Proxy(proxy)]

makeReactiveWithParent(g, value, parentProxy) ==
    IF ~isMutable(g, value) THEN [g |-> g, v |-> value]
    ELSE IF value \in DOMAIN g.proxyCache
    THEN [g |-> g, v |-> Proxy(g.proxyCache[value])]
    ELSE LET proxy == Len(g.proxies) + 1
         IN  [g |-> [g EXCEPT
                        !.proxies = Append(@, value),
                        !.proxyCache = (value :> proxy) @@ @,
                        !.parentProxyCache = Append(@, parentProxy),
                        !.snapshotsCache = Append(@, NullSnapshot),
                        !.callbacksCache =
                            Append(@, [k \in TrackedKeys |-> <<>>])],
              v |-> Proxy(proxy)]

\* Wrap an object in a (lazy recursive) proxy
makeReactive(g, object) == makeReactiveWithParent(g, object, NullParent)

\* --------------------------------------------------------------- traps
\* Each trap takes the globals g and returns them with its result.  The
\* target of a proxy is a plain object, or (for a proxy of a proxy) another
\* proxy, whose traps then run inside Reflect.get / Reflect.set / ... .
\* History the code does not keep: g.reads logs the (proxy, key) pairs the
\* traps were asked to read; g.dirty holds the re-run functions that
\* invalidateCallbacks has added to invalidatedCallbacks since their latest
\* invocation began; g.hit holds the re-run functions whose latest run
\* read a pair that a write or delete has changed since; g.touched those
\* whose selector takes a snapshot of a subtree that has been written since
\* their latest run; g.written the plain objects written since the
\* application last called takeSnapshot; g.stores counts the set trap's calls
\* within the application's current call, g.same those of them that stored
\* the value the key already had.
HitBy(g, pairs) == {c \in DOMAIN g.lastRun : g.lastRun[c] \cap pairs # {}}

\* The raw objects of the subtree under plain object i (snapshots stored in
\* it are values, not part of the tree).
RECURSIVE Reach(_, _)
Reach(g, i) ==
    {i} \cup UNION {Reach(g, g.heap[i].val[k].id) :
                      k \in {k \in Range(g.heap[i].keys) :
                                 /\ g.heap[i].val[k].t = "object"
                                 /\ g.heap[i].val[k].id \notin g.snapshotsSet}}

\* The subscriptions whose selector is o => takeSnapshot(o[k]) and whose
\* subtree o[k] holds the object that a write or delete on `proxy` changes.
TouchedBy(g, proxy, key) ==
    {c \in 1..Len(g.subs) :
        /\ g.subs[c].selector.kind = "snapshot"
        /\ LET o == g.subs[c].proxy
               k == g.subs[c].selector.key
               child == Reflect_get(g.heap[RawId(g, o)], k)
           IN  /\ child.t = "object"
               /\ child.id \notin g.snapshotsSet
               /\ RawId(g, proxy) \in Reach(g, child.id)}

RECURSIVE get(_, _, _)
get(g, proxy, key) ==
    LET target == g.proxies[proxy]
        \* const value = Reflect.get(target, key)
        Value(g0) ==
            IF target.t = "object"
            THEN [g |-> g0, v |-> Reflect_get(g0.heap[target.id], key)]
            ELSE get(g0, target.id, key)
        \* no descriptor: return value; else markCurrentCallbacks(proxy, key)
        \* and return makeReactiveWithParent(value, proxy)
        Wrapped(value) ==
            IF ~HasOwn(g.heap[RawId(g, proxy)], key)
            THEN value
            ELSE makeReactiveWithParent(
                     markCurrentCallbacks(value.g, proxy, key), value.v, proxy)
    IN  Wrapped(Value([g EXCEPT !.reads = @ \cup {<<proxy, key>>}]))

RECURSIVE has(_, _, _)
has(g, proxy, key) ==
    LET target == g.proxies[proxy]
        \* return Reflect.has(target, key)
        Result(g1) ==
            IF target.t = "object"
            THEN [g |-> g1, v |-> HasOwn(g1.heap[target.id], key)]
            ELSE has(g1, target.id, key)
    IN  Result(markCurrentCallbacks(
                   [g EXCEPT !.reads = @ \cup {<<proxy, key>>}], proxy, key))

\* A variant that records no dependency on the keys.
ownKeysUntracked(g, proxy) ==
    [g |-> [g EXCEPT !.reads = @ \cup {<<proxy, OWN_KEYS>>}],
     v |-> g.heap[RawId(g, proxy)].keys]

\* The ownKeys trap as Object.keys uses it: the enumerable own keys.
RECURSIVE ownKeys(_, _)
ownKeys(g, proxy) ==
    LET target == g.proxies[proxy]
        \* return Reflect.ownKeys(target)
        Result(g1) ==
            IF target.t = "object"
            THEN [g |-> g1, v |-> g1.heap[target.id].keys]
            ELSE ownKeys(g1, target.id)
    IN  Result(markCurrentCallbacks(
                   [g EXCEPT !.reads = @ \cup {<<proxy, OWN_KEYS>>}],
                   proxy, OWN_KEYS))

RECURSIVE set(_, _, _, _)
set(g, proxy, key, newValue) ==
    LET target == g.proxies[proxy]
        \* key in target
        inTarget == IF target.t = "object"
                    THEN [g |-> g, v |-> HasOwn(g.heap[target.id], key)]
                    ELSE has(g, target.id, key)
        \* if (!(key in target)) invalidateCallbacks(proxy, OWN_KEYS)
        NewKey(in) ==
            IF ~in.v THEN invalidateCallbacks(in.g, proxy, OWN_KEYS) ELSE in.g
        Stored(g1, r) == [g |-> [g1 EXCEPT !.heap[target.id] = r.o], ok |-> r.ok]
        \* const result = Reflect.set(target, key, newValue)
        Result(g1) ==
            IF target.t = "object"
            THEN Stored(g1, Reflect_set(g1.heap[target.id], key, newValue))
            ELSE set(g1, target.id, key, newValue)
        \* invalidateSnapshots(proxy); invalidateCallbacks(proxy, key)
        Invalidated(result) ==
            [g |-> invalidateCallbacks(
                       invalidateSnapshots(result.g, proxy), proxy, key),
             ok |-> result.ok]
        changed == {<<proxy, key>>} \cup
                   (IF HasOwn(g.heap[RawId(g, proxy)], key)
                    THEN {} ELSE {<<proxy, OWN_KEYS>>})
        same == /\ HasOwn(g.heap[RawId(g, proxy)], key)
                /\ Reflect_get(g.heap[RawId(g, proxy)], key) = newValue
        History(result) ==
            [g |-> [result.g EXCEPT
                      !.hit = @ \cup HitBy(g, changed),
                      !.touched = @ \cup TouchedBy(g, proxy, key),
                      !.written = @ \cup {RawId(g, proxy)},
                      !.stores = @ + 1,
                      !.same = @ + (IF same THEN 1 ELSE 0)],
             ok |-> result.ok]
    IN  History(Invalidated(Result(NewKey(inTarget))))

RECURSIVE deleteProperty(_, _, _)
deleteProperty(g, proxy, key) ==
    LET target == g.proxies[proxy]
        Stored(r) == [g |-> [g EXCEPT !.heap[target.id] = r.o], ok |-> r.ok]
        \* const result = Reflect.deleteProperty(...args)
        result == IF target.t = "object"
                  THEN Stored(Reflect_deleteProperty(g.heap[target.id], key))
                  ELSE deleteProperty(g, target.id, key)
        \* invalidateSnapshots(proxy); invalidateCallbacks(proxy, OWN_KEYS)
        Invalidated(r) ==
            [g |-> invalidateCallbacks(
                       invalidateSnapshots(r.g, proxy), proxy, OWN_KEYS),
             ok |-> r.ok]
        changed == IF HasOwn(g.heap[RawId(g, proxy)], key)
                   THEN {<<proxy, key>>, <<proxy, OWN_KEYS>>}
                   ELSE {<<proxy, key>>}
        History(r) ==
            [g |-> [r.g EXCEPT
                      !.hit = @ \cup HitBy(g, changed),
                      !.touched = @ \cup TouchedBy(g, proxy, key),
                      !.written = @ \cup {RawId(g, proxy)}],
             ok |-> r.ok]
    IN  History(Invalidated(result))

\* ----------------------------------------------------------- snapshots
\* A variant that leaves snapshots unfrozen.
FREEZE_OFF == FALSE

FREEZE == TRUE

\* Create a snapshot as lazily as possible, and cache it.  ok is FALSE when
\* the call throws "Trying to snapshot a non-proxified object".
RECURSIVE takeSnapshot(_, _)
RECURSIVE newSnapshot(_, _)
RECURSIVE snapshotFields(_, _, _, _, _)
\* A variant that wraps an object that has no proxy instead of throwing.
takeSnapshotWrapping(g, value) ==
    LET Wrapped(r) == newSnapshot(r.g, r.v.id)
    IN  IF ~isMutable(g, value)
        THEN [g |-> g, v |-> value, ok |-> TRUE]
        ELSE IF value.t # "proxy"
        THEN Wrapped(makeReactive(g, value))
        ELSE IF g.snapshotsCache[value.id] # NullSnapshot
        THEN [g |-> g, v |-> Obj(g.snapshotsCache[value.id]), ok |-> TRUE]
        ELSE newSnapshot(g, value.id)

takeSnapshot(g, value) ==
    IF ~isMutable(g, value)
    THEN [g |-> g, v |-> value, ok |-> TRUE]
    ELSE IF value.t # "proxy"
    THEN [g |-> g, v |-> Undefined, ok |-> FALSE]
    ELSE IF g.snapshotsCache[value.id] # NullSnapshot
    THEN [g |-> g, v |-> Obj(g.snapshotsCache[value.id]), ok |-> TRUE]
    ELSE newSnapshot(g, value.id)

\* Create a new snapshot of the proxy: its fields, frozen, cached and added to
\* snapshotsSet.
newSnapshot(g, proxy) ==
    LET raw == g.heap[RawId(g, proxy)]
        keys == IF raw.arr
                THEN SelectSeq(raw.keys, LAMBDA k : k \in IndexKeys)
                ELSE raw.keys
        snapshot(val) == [NewObject(raw.arr, keys, val, raw.length) EXCEPT
                              !.frozen = FREEZE, !.of = proxy]
        Cached(r) ==
            IF ~r.ok THEN [g |-> r.g, v |-> Undefined, ok |-> FALSE]
            ELSE [g |-> [r.g EXCEPT
                           !.heap = Append(@, snapshot(r.val)),
                           !.snapshotsCache[proxy] = Len(r.g.heap) + 1,
                           !.snapshotsSet = @ \cup {Len(r.g.heap) + 1}],
                  v |-> Obj(Len(r.g.heap) + 1), ok |-> TRUE]
        Fields(r0) == snapshotFields(r0.g, proxy, keys, 1, NoProps)
    IN  \* value.map reads "length"; Object.keys(value) runs ownKeys
        Cached(Fields(IF raw.arr THEN get(g, proxy, "length")
                      ELSE ownKeys(g, proxy)))

\* The loop over the keys: snapshot[key] = takeSnapshot(value[key]); for an
\* array, Array.prototype.map asks `key in value` before it reads value[key].
snapshotFields(g, proxy, keys, i, val) ==
    IF i > Len(keys)
    THEN [g |-> g, val |-> val, ok |-> TRUE]
    ELSE LET Rest(s) ==
                 IF ~s.ok THEN [g |-> s.g, val |-> val, ok |-> FALSE]
                 ELSE snapshotFields(s.g, proxy, keys, i + 1,
                                     [val EXCEPT ![keys[i]] = s.v])
             Snapshot(child) == takeSnapshot(child.g, child.v)
         IN  Rest(Snapshot(get(IF g.heap[RawId(g, proxy)].arr
                               THEN has(g, proxy, keys[i]).g ELSE g,
                               proxy, keys[i])))

\* Given a proxy-wrapped object and an old snapshot of that object, revert to
\* the old snapshot.  ok is FALSE when the call throws (takeSnapshot's error,
\* or the TypeError of reading a property or the keys of undefined).
RECURSIVE applySnapshot(_, _, _)
RECURSIVE applyOldSnapshotAtKeys(_, _, _, _, _)
applySnapshot(g, proxy, snapshot) ==
    LET \* for (const key of Object.keys(snapshot)) applyOldSnapshotAtKey(key)
        Theirs(r1) ==
            IF ~r1.ok THEN r1
            ELSE IF ~ObjectKeys(r1.g, snapshot).ok THEN [g |-> r1.g, ok |-> FALSE]
            ELSE applyOldSnapshotAtKeys(r1.g, proxy.id, snapshot,
                                        ObjectKeys(r1.g, snapshot).v, 1)
        \* for (const key of Object.keys(proxy)) applyOldSnapshotAtKey(key)
        Mine(keys) ==
            applyOldSnapshotAtKeys(keys.g, proxy.id, snapshot, keys.v, 1)
        \* Bail out early if there is no change
        Changed(current) ==
            IF ~current.ok THEN [g |-> current.g, ok |-> FALSE]
            ELSE IF current.v = snapshot THEN [g |-> current.g, ok |-> TRUE]
            ELSE Theirs(Mine(ownKeys(current.g, proxy.id)))
    IN  Changed(takeSnapshot(g, proxy))

\* A variant that assigns snapshot[key] without comparing it with proxy[key].
applyOldSnapshotAtKeysAlways(g, proxy, snapshot, keys, i) ==
    IF i > Len(keys)
    THEN [g |-> g, ok |-> TRUE]
    ELSE LET key == keys[i]
             Rest(g1) == applyOldSnapshotAtKeys(g1, proxy, snapshot, keys, i + 1)
             Recursed(r) == IF ~r.ok THEN r ELSE Rest(r.g)
             Assigned(again, theirs) ==
                 IF ~theirs.ok THEN [g |-> again.g, ok |-> FALSE]
                 ELSE Rest(set(again.g, proxy, key, theirs.v).g)
             AtKey(value, theirs) ==
                 IF isMutable(value.g, value.v)
                 THEN IF ~theirs.ok THEN [g |-> value.g, ok |-> FALSE]
                      ELSE Recursed(applySnapshot(value.g, value.v, theirs.v))
                 ELSE Assigned(get(value.g, proxy, key), theirs)
         IN  AtKey(get(g, proxy, key), PropertyOf(g, snapshot, key))

\* applyOldSnapshotAtKey(key) for keys[i], keys[i+1], ...
applyOldSnapshotAtKeys(g, proxy, snapshot, keys, i) ==
    IF i > Len(keys)
    THEN [g |-> g, ok |-> TRUE]
    ELSE LET key == keys[i]
             Rest(g1) == applyOldSnapshotAtKeys(g1, proxy, snapshot, keys, i + 1)
             Recursed(r) == IF ~r.ok THEN r ELSE Rest(r.g)
             \* else if (proxy[key] !== snapshot[key]) proxy[key] = snapshot[key]
             Assigned(again, theirs) ==
                 IF ~theirs.ok THEN [g |-> again.g, ok |-> FALSE]
                 ELSE IF again.v # theirs.v
                 THEN Rest(set(again.g, proxy, key, theirs.v).g)
                 ELSE Rest(again.g)
             \* const value = proxy[key]; if (isMutable(value))
             \*     applySnapshot(value, snapshot[key])
             AtKey(value, theirs) ==
                 IF isMutable(value.g, value.v)
                 THEN IF ~theirs.ok THEN [g |-> value.g, ok |-> FALSE]
                      ELSE Recursed(applySnapshot(value.g, value.v, theirs.v))
                 ELSE Assigned(get(value.g, proxy, key), theirs)
         IN  AtKey(get(g, proxy, key), PropertyOf(g, snapshot, key))

\* ------------------------------------------------------- subscriptions
\* A selector: o => o[key] ("get"), o => o[o.key] ("dynamic"),
\* o => takeSnapshot(o[key]) ("snapshot"), o => Object.keys(o).join() ("keys"),
\* o => key in o ("has"), o => o[key][key] ("path", which throws a TypeError
\* when o[key] is undefined), or
\* o => { subscribe(o, p => p.b, v => { y = v }); return o[key] }
\* ("subscribing").  ok is FALSE when the selector throws; g.threw is TRUE
\* from the throw on, until the application's call returns.  g.over is TRUE
\* when a subscribe call was left out because MaxSubs were made.
Bool(b) == [t |-> "boolean", id |-> IF b THEN 1 ELSE 0, s |-> ""]

\* Array.prototype.join of an array of keys
RECURSIVE Join(_)
Join(keys) ==
    IF keys = <<>> THEN ""
    ELSE IF Len(keys) = 1 THEN keys[1]
    ELSE keys[1] \o "," \o Join(Tail(keys))
Selector(kind, key) == [kind |-> kind, key |-> key]

ToPropertyKey(value) ==
    CASE value.t = "string" -> value.s
      [] value.t = "number" -> IndexKey(value.id)
      [] OTHER -> "undefined"

RECURSIVE subscribe(_, _, _, _)
Select(g, proxy, selector) ==
    LET Returned(r) == [g |-> r.g, v |-> r.v, ok |-> TRUE]
        Inner(first) ==
            IF first.v.t = "proxy"
            THEN Returned(get(first.g, first.v.id, selector.key))
            ELSE [g |-> first.g,
                  v |-> PropertyOf(first.g, first.v, selector.key).v,
                  ok |-> PropertyOf(first.g, first.v, selector.key).ok]
        Outer(g1) ==
            IF g1.threw THEN [g |-> g1, v |-> Undefined, ok |-> FALSE]
            ELSE Returned(get(g1, proxy, selector.key))
        AtKey(k) == get(k.g, proxy, ToPropertyKey(k.v))
        Snapshot(r) == takeSnapshot(r.g, r.v)
        Keys(r) == [g |-> r.g, v |-> Str(Join(r.v)), ok |-> TRUE]
        In(r) == [g |-> r.g, v |-> Bool(r.v), ok |-> TRUE]
    IN  CASE selector.kind = "get" ->
                Returned(get(g, proxy, selector.key))
          [] selector.kind = "dynamic" ->
                Returned(AtKey(get(g, proxy, "key")))
          [] selector.kind = "snapshot" ->
                Snapshot(get(g, proxy, selector.key))
          [] selector.kind = "keys" ->
                Keys(ownKeys(g, proxy))
          [] selector.kind = "has" ->
                In(has(g, proxy, selector.key))
          [] selector.kind = "path" ->
                Inner(get(g, proxy, selector.key))
          [] selector.kind = "subscribing" ->
                IF Len(g.subs) >= MaxSubs
                THEN Returned(get([g EXCEPT !.over = TRUE], proxy, selector.key))
                ELSE Outer(subscribe(g, proxy, Selector("get", "b"), "store"))

\* A variant that keeps the pairs recorded by the earlier runs.
rawSubscribeKeep(g, c) ==
    LET Done(result) ==
            [g |-> [result.g EXCEPT
                      !.currentCallbacks =
                          IF result.ok THEN SeqDelete(@, c) ELSE @,
                      !.threw = ~result.ok,
                      !.lastRun[c] = result.g.reads,
                      !.reads = g.reads,
                      !.hit = @ \ {c},
                      !.touched = @ \ {c}],
             v |-> result.v]
    IN  Done(Select([g EXCEPT !.currentCallbacks = SeqAdd(@, c), !.reads = {}],
                    g.subs[c].proxy, g.subs[c].selector))

\* rawSubscribe(proxy, selector, callback) for the re-run function c of
\* g.subs[c]: drop c from the dependents of every pair it has recorded, run
\* the selector with c in currentCallbacks, return the selector's result.
\* When the selector throws, currentCallbacks.delete(callback) is not reached.
\* g.reads is the log of the selector that is running: the reads of a
\* selector that runs inside it are logged for the inner one alone.
rawSubscribe(g, c) ==
    LET recorded == g.callbackSubscriptionsCache[c]
        Done(result) ==
            [g |-> [result.g EXCEPT
                      !.currentCallbacks =
                          IF result.ok THEN SeqDelete(@, c) ELSE @,
                      !.threw = ~result.ok,
                      !.lastRun[c] = result.g.reads,
                      !.reads = g.reads,
                      !.hit = @ \ {c},
                      !.touched = @ \ {c}],
             v |-> result.v]
    IN  Done(Select(
            [g EXCEPT
               !.callbacksCache =
                   SubSeq([p \in DOMAIN g.callbacksCache |->
                             [k \in TrackedKeys |->
                                 IF <<p, k>> \in recorded
                                 THEN SeqDelete(g.callbacksCache[p][k], c)
                                 ELSE g.callbacksCache[p][k]]],
                          1, Len(g.callbacksCache)),
               !.currentCallbacks = SeqAdd(@, c),
               !.reads = {}],
            g.subs[c].proxy, g.subs[c].selector))

\* The callbacks the application subscribes with, for the subscription's
\* handle obj:
\*   "store"   v => { x = v }
\*   "copy"    v => { x = v; obj.b = v }
\*   "nested"  v => { x = v; if (obj.b !== v) applyChange(obj, o => { o.b = v }) }
\*   "always"  v => { x = v; applyChange(obj, o => { o.b = v }) }
\* x is delivered[c].
Callbacks == {"store", "copy", "nested"}

RECURSIVE newCallback(_, _)
RECURSIVE notifyFrom(_, _)
RECURSIVE notifySubscribers(_)

\* applyChange(proxy, o => { o[key] = value })
applyChange(g, proxy, key, value) ==
    notifySubscribers(set(g, proxy, key, value).g)

\* callback(v) for the callback of g.subs[c]
callback(g, c, v) ==
    LET obj == g.subs[c].proxy
        Stored(g0) == [g0 EXCEPT !.delivered[c] = v]
        Differs(b) == IF b.v # v THEN applyChange(b.g, obj, "b", v) ELSE b.g
    IN  CASE g.subs[c].callback = "store" -> Stored(g)
          [] g.subs[c].callback = "copy" -> set(Stored(g), obj, "b", v).g
          [] g.subs[c].callback = "nested" -> Differs(get(Stored(g), obj, "b"))
          [] g.subs[c].callback = "always" -> applyChange(Stored(g), obj, "b", v)

\* A variant that registers the dependencies and does not call the callback.
newCallbackSilent(g, c) ==
    rawSubscribe([g EXCEPT !.dirty = @ \ {c}], c).g

\* What the code's execution depends on: the application's objects and
\* variables and the module's globals.
ProgramState(g) ==
    [heap |-> g.heap, proxies |-> g.proxies, proxyCache |-> g.proxyCache,
     parentProxyCache |-> g.parentProxyCache,
     snapshotsCache |-> g.snapshotsCache, snapshotsSet |-> g.snapshotsSet,
     callbacksCache |-> g.callbacksCache,
     invalidatedCallbacks |-> g.invalidatedCallbacks,
     callbackSubscriptionsCache |-> g.callbackSubscriptionsCache,
     currentCallbacks |-> g.currentCallbacks, subs |-> g.subs,
     delivered |-> g.delivered]

\* newCallback = () => callback(rawSubscribe(proxy, selector, newCallback));
\* g.calls logs the invocation.  g.stack holds the invocations that have not
\* returned, each with the program state it began in: an invocation that
\* begins in the state in which an invocation of the same function that has
\* not returned began repeats it without end (g.diverged; the engine ends the
\* recursion with a RangeError).
newCallback(g, c) ==
    LET frame == <<c, ProgramState(g)>>
        Called(r) ==
            IF r.g.threw THEN r.g
            ELSE callback([r.g EXCEPT !.calls = Append(@, c)], c, r.v)
        Left(g1) == [g1 EXCEPT !.stack = g.stack]
    IN  IF frame \in g.stack
        THEN [g EXCEPT !.diverged = TRUE, !.threw = TRUE]
        ELSE Left(Called(rawSubscribe(
                 [g EXCEPT !.dirty = @ \ {c}, !.stack = @ \cup {frame}], c)))

subscribe(g, proxy, selector, cb) ==
    newCallback([g EXCEPT !.subs = Append(@, [proxy |-> proxy,
                                               selector |-> selector,
                                               callback |-> cb])],
                Len(g.subs) + 1)

\* for (const callback of invalidatedCallbacks) callback(); from the i-th
\* entry on (a Set's iteration also visits entries added meanwhile), then
\* invalidatedCallbacks.clear(), which a callback that throws leaves out.
\* When a callback has itself cleared the set
\* (g.clears counts the clear() calls), the entries this loop had left are
\* gone and it goes on with the entries added since.
notifyFrom(g, i) ==
    IF i > Len(g.invalidatedCallbacks)
    THEN [g EXCEPT !.invalidatedCallbacks = <<>>, !.clears = @ + 1]
    ELSE LET Rest(g1) ==
                 IF g1.threw THEN g1
                 ELSE notifyFrom(g1, IF g1.clears # g.clears THEN 1 ELSE i + 1)
         IN  Rest(newCallback(g, g.invalidatedCallbacks[i]))

\* A variant that leaves the invalidated callbacks in the set.
notifySubscribersKeep(g) ==
    [notifyFrom(g, 1) EXCEPT !.invalidatedCallbacks = g.invalidatedCallbacks]

notifySubscribers(g) == notifyFrom(g, 1)

\* ------------------------------------------------------------ the state
VARIABLES
    heap, proxies, proxyCache, parentProxyCache, snapshotsCache, snapshotsSet,
    callbacksCache, invalidatedCallbacks, callbackSubscriptionsCache,
    currentCallbacks,
    subs,            \* the subscribe calls made: [proxy, selector] of each
    delivered,       \* the value each callback last received
    inChange,        \* the application is inside applyChange's change function
    calls,           \* history: callbacks invoked since the latest applyChange began
    lastRun, hit, touched, written, dirty,   \* history, see the traps
    snap1,           \* history: the application's latest takeSnapshot call
    writes,          \* history: the writing operations made so far
    last             \* history: the call the application has just made

vars == <<heap, proxies, proxyCache, parentProxyCache, snapshotsCache,
          snapshotsSet, callbacksCache, invalidatedCallbacks,
          callbackSubscriptionsCache, currentCallbacks, subs, delivered,
          inChange, calls, lastRun, hit, touched, written, dirty, snap1,
          writes, last>>

\* No call recorded: the latest step was none of the calls that last records.
\* A recorded call has its name, its arguments (a handle and a snapshot, or a
\* value), whether it returned (ok) or threw, the value it returned, and the
\* counts of g.stores and g.same.
NoCall == [op |-> "", proxy |-> 0, ref |-> 0, arg |-> Undefined, ok |-> TRUE,
           v |-> Undefined, stores |-> 0, same |-> 0]

G == [heap |-> heap, proxies |-> proxies, proxyCache |-> proxyCache,
      parentProxyCache |-> parentProxyCache, snapshotsCache |-> snapshotsCache,
      snapshotsSet |-> snapshotsSet, callbacksCache |-> callbacksCache,
      invalidatedCallbacks |-> invalidatedCallbacks,
      callbackSubscriptionsCache |-> callbackSubscriptionsCache,
      currentCallbacks |-> currentCallbacks, subs |-> subs,
      delivered |-> delivered, calls |-> calls, lastRun |-> lastRun,
      hit |-> hit, touched |-> touched, written |-> written, dirty |-> dirty,
      reads |-> {}, clears |-> 0, stores |-> 0, same |-> 0, last |-> NoCall,
      threw |-> FALSE, over |-> FALSE, stack |-> {}, diverged |-> FALSE]

Commit(g) ==
    /\ heap' = g.heap
    /\ proxies' = g.proxies
    /\ proxyCache' = g.proxyCache
    /\ parentProxyCache' = g.parentProxyCache
    /\ snapshotsCache' = g.snapshotsCache
    /\ snapshotsSet' = g.snapshotsSet
    /\ callbacksCache' = g.callbacksCache
    /\ invalidatedCallbacks' = g.invalidatedCallbacks
    /\ callbackSubscriptionsCache' = g.callbackSubscriptionsCache
    /\ currentCallbacks' = g.currentCallbacks
    /\ subs' = g.subs
    /\ delivered' = g.delivered
    /\ calls' = g.calls
    /\ lastRun' = g.lastRun
    /\ hit' = g.hit
    /\ touched' = g.touched
    /\ written' = g.written
    /\ dirty' = g.dirty
    /\ last' = g.last

\* The application's data: the root object {a: {a: 0}}.
Root == 1
InitHeap ==
    <<NewObject(FALSE, <<"a">>, [NoProps EXCEPT !["a"] = Obj(2)], 0),
      NewObject(FALSE, <<"a">>, [NoProps EXCEPT !["a"] = Num(0)], 0)>>

NoSnap == [proxy |-> 0, ref |-> 0]

InitWith(h) ==
    /\ heap = h
    /\ proxies = <<>>
    /\ proxyCache = <<>>
    /\ parentProxyCache = <<>>
    /\ snapshotsCache = <<>>
    /\ snapshotsSet = {}
    /\ callbacksCache = <<>>
    /\ invalidatedCallbacks = <<>>
    /\ callbackSubscriptionsCache = [c \in 1..MaxSubs |-> {}]
    /\ currentCallbacks = <<>>
    /\ subs = <<>>
    /\ delivered = [c \in 1..MaxSubs |-> Undefined]
    /\ inChange = FALSE
    /\ calls = <<>>
    /\ lastRun = [c \in 1..MaxSubs |-> {}]
    /\ hit = {}
    /\ touched = {}
    /\ written = {}
    /\ dirty = {}
    /\ snap1 = NoSnap
    /\ writes = 0
    /\ last = NoCall

Init == InitWith(InitHeap)

\* The data of the dynamic-dependency test: {a: 0, b: 1, key: "a"}.
InitHeapDyn ==
    <<NewObject(FALSE, <<"a", "b", "key">>,
                [NoProps EXCEPT !["a"] = Num(0), !["b"] = Num(1),
                                !["key"] = Str("a")], 0)>>

InitDyn == InitWith(InitHeapDyn)

\* ---------------------------------------------------------- operations
Handles == 1..Len(proxies)
Scalars == {Num(0), Num(1)}
AppKeys == {"a", "b"}
IsArrayHandle(h) == heap[RawId(G, h)].arr
\* The keys the application uses on handle h: the elements of an array, the
\* record keys of a record.
KeysOf(h) == IF IsArrayHandle(h)
             THEN Range(heap[RawId(G, h)].keys) \cap IndexKeys
             ELSE AppKeys

\* makeReactive(root)
MakeReactive ==
    /\ Commit(makeReactive(G, Obj(Root)).g)
    /\ UNCHANGED <<inChange, snap1, writes>>

\* h[k]
Read(h, k) ==
    /\ Commit(get(G, h, k).g)
    /\ UNCHANGED <<inChange, snap1, writes>>

\* h[k] = v, for a primitive or a stored snapshot v
Write(h, k, v) ==
    /\ writes < MaxWrites
    /\ writes' = writes + 1
    /\ Commit(set(G, h, k, v).g)
    /\ UNCHANGED <<inChange, snap1>>

\* h[k] = {a: 0} or h[k] = [0], a new object
Literal(isArr) ==
    IF isArr THEN NewObject(TRUE, <<"0">>, [NoProps EXCEPT !["0"] = Num(0)], 1)
    ELSE NewObject(FALSE, <<"a">>, [NoProps EXCEPT !["a"] = Num(0)], 0)

WriteObject(h, k, isArr) ==
    /\ writes < MaxWrites
    /\ writes' = writes + 1
    /\ Len(heap) < MaxHeap
    /\ LET g == [G EXCEPT !.heap = Append(@, Literal(isArr))]
       IN  Commit(set(g, h, k, Obj(Len(heap) + 1)).g)
    /\ UNCHANGED <<inChange, snap1>>

\* delete h[k]
Delete(h, k) ==
    /\ ~IsArrayHandle(h)
    /\ writes < MaxWrites
    /\ writes' = writes + 1
    /\ Commit(deleteProperty(G, h, k).g)
    /\ UNCHANGED <<inChange, snap1>>

\* h.push(v): Array.prototype.push reads "length", sets the new index and
\* then sets "length".
Push(h, v) ==
    /\ IsArrayHandle(h)
    /\ heap[RawId(G, h)].length < MaxArr
    /\ writes < MaxWrites
    /\ writes' = writes + 1
    /\ LET len == get(G, h, "length")
           g1 == set(len.g, h, IndexKey(len.v.id), v).g
       IN  Commit(set(g1, h, "length", Num(len.v.id + 1)).g)
    /\ UNCHANGED <<inChange, snap1>>

\* takeSnapshot(h), called by the application
TakeSnapshot(h) ==
    LET r == takeSnapshot(G, Proxy(h))
    IN  /\ Len(r.g.heap) <= MaxHeap
        /\ Commit([r.g EXCEPT !.written = {}])
        /\ snap1' = [proxy |-> h, ref |-> r.v.id]
        /\ UNCHANGED <<inChange, writes>>

\* applySnapshot(h, s) for a snapshot s taken of h earlier
ApplySnapshot(h, s) ==
    /\ heap[s].of = h
    /\ writes < MaxWrites
    /\ writes' = writes + 1
    /\ LET r == applySnapshot(G, Proxy(h), Obj(s))
       IN  /\ Len(r.g.heap) <= MaxHeap
           /\ Commit([r.g EXCEPT !.last = [NoCall EXCEPT
                                              !.op = "apply", !.proxy = h,
                                              !.ref = s, !.ok = r.ok,
                                              !.stores = r.g.stores,
                                              !.same = r.g.same]])
    /\ UNCHANGED <<inChange, snap1>>

\* s[k] = v on a snapshot s: in strict mode (the code of a module) the
\* assignment throws a TypeError when Reflect.set's result is false.
AssignToSnapshot(s, k, v) ==
    /\ heap' = [heap EXCEPT ![s] = Reflect_set(@, k, v).o]
    /\ last' = [NoCall EXCEPT !.op = "assign",
                                !.ok = Reflect_set(heap[s], k, v).ok]
    /\ UNCHANGED <<proxies, proxyCache, parentProxyCache, snapshotsCache,
                   snapshotsSet, callbacksCache, invalidatedCallbacks,
                   callbackSubscriptionsCache, currentCallbacks, subs, delivered,
                   inChange, calls, lastRun, hit, touched, written, dirty, snap1,
                   writes>>

\* delete s[k] on a snapshot s: in strict mode a TypeError when
\* Reflect.deleteProperty's result is false.
DeleteFromSnapshot(s, k) ==
    /\ heap' = [heap EXCEPT ![s] = Reflect_deleteProperty(@, k).o]
    /\ last' = [NoCall EXCEPT !.op = "delete", !.ref = s, !.arg = Str(k),
                                !.ok = Reflect_deleteProperty(heap[s], k).ok]
    /\ UNCHANGED <<proxies, proxyCache, parentProxyCache, snapshotsCache,
                   snapshotsSet, callbacksCache, invalidatedCallbacks,
                   callbackSubscriptionsCache, currentCallbacks, subs, delivered,
                   inChange, calls, lastRun, hit, touched, written, dirty, snap1,
                   writes>>

\* h[k][k2] = v where h[k] is a snapshot stored in the tree (h.previous.a = 3
\* of the tests): the get trap of h, then an assignment to what it returned.
AssignThrough(h, k, k2, v) ==
    LET Assigned(r) ==
            [r.g EXCEPT
                !.heap[r.v.id] = Reflect_set(@, k2, v).o,
                !.last = [NoCall EXCEPT
                            !.op = "assign", !.proxy = h,
                            !.ok = Reflect_set(r.g.heap[r.v.id], k2, v).ok]]
    IN  /\ ~isMutable(G, Reflect_get(heap[RawId(G, h)], k))
        /\ Reflect_get(heap[RawId(G, h)], k).t = "object"
        /\ Commit(Assigned(get(G, h, k)))
        /\ UNCHANGED <<inChange, snap1, writes>>

\* takeSnapshot(value) for a value that is no handle: an object of the
\* application, a primitive or a snapshot
TakeSnapshotOf(value) ==
    LET Returned(r) ==
            [r.g EXCEPT !.last = [NoCall EXCEPT !.op = "takeSnapshot",
                                                 !.arg = value, !.ok = r.ok,
                                                 !.v = r.v]]
    IN  /\ Commit(Returned(takeSnapshot(G, value)))
        /\ UNCHANGED <<inChange, snap1, writes>>

\* applySnapshot(object, s) for an object of the application, not its handle
ApplySnapshotTo(object, s) ==
    LET Returned(r) ==
            [r.g EXCEPT !.last = [NoCall EXCEPT !.op = "applySnapshot",
                                                 !.arg = object,
                                                 !.ok = r.ok]]
    IN  /\ Commit(Returned(applySnapshot(G, object, Obj(s))))
        /\ UNCHANGED <<inChange, snap1, writes>>

\* subscribe(h, selector, callback)
Subscribe(h, selector, cb) ==
    /\ Len(subs) < MaxSubs
    /\ LET g == subscribe(G, h, selector, cb)
       IN  /\ Len(g.heap) <= MaxHeap
           /\ ~g.over
           /\ Commit([g EXCEPT
                        !.calls = calls,
                        !.last = IF g.diverged
                                 THEN [NoCall EXCEPT !.op = "subscribe",
                                                     !.ok = FALSE]
                                 ELSE NoCall])
    /\ UNCHANGED <<inChange, snap1, writes>>

\* applyChange(h, change): change begins ...
BeginChange ==
    /\ ~inChange
    /\ inChange' = TRUE
    /\ calls' = <<>>
    /\ last' = NoCall
    /\ UNCHANGED <<heap, proxies, proxyCache, parentProxyCache, snapshotsCache,
                   snapshotsSet, callbacksCache, invalidatedCallbacks,
                   callbackSubscriptionsCache, currentCallbacks, subs, delivered,
                   lastRun, hit, touched, written, dirty, snap1, writes>>

\* ... and returns: notifySubscribers()
EndChange ==
    /\ inChange
    /\ LET g == notifySubscribers(G)
       IN  /\ Len(g.heap) <= MaxHeap
           /\ ~g.over
           /\ Commit([g EXCEPT
                        !.last = IF g.diverged
                                 THEN [NoCall EXCEPT !.op = "applyChange",
                                                     !.ok = FALSE]
                                 ELSE NoCall])
    /\ inChange' = FALSE
    /\ UNCHANGED <<snap1, writes>>

Selectors == {Selector("get", "a"), Selector("snapshot", "a")}

\* The application of the snapshot functions: no subscriptions.
Next ==
    \/ MakeReactive
    \/ \E h \in Handles : \E k \in KeysOf(h) : Read(h, k)
    \/ \E h \in Handles : \E k \in KeysOf(h) : \E v \in Scalars : Write(h, k, v)
    \/ \E h \in Handles : \E k \in KeysOf(h) :
            snap1 # NoSnap /\ Write(h, k, Obj(snap1.ref))
    \/ \E h \in Handles : \E k \in KeysOf(h) : \E isArr \in BOOLEAN :
            WriteObject(h, k, isArr)
    \/ \E h \in Handles : \E k \in AppKeys : Delete(h, k)
    \/ \E h \in Handles : \E v \in Scalars : Push(h, v)
    \/ \E h \in Handles : TakeSnapshot(h)
    \/ \E h \in Handles : snap1 # NoSnap /\ ApplySnapshot(h, snap1.ref)
    \/ \E s \in snapshotsSet : \E k \in AppKeys : \E v \in Scalars :
            AssignToSnapshot(s, k, v)

Spec == Init /\ [][Next]_vars

\* The application of the subscription functions: primitive writes and
\* deletes, within applyChange or not, and subscriptions.
NextSub ==
    \/ MakeReactive
    \/ \E h \in Handles : \E k \in KeysOf(h) : Read(h, k)
    \/ \E h \in Handles : \E k \in KeysOf(h) : \E v \in Scalars : Write(h, k, v)
    \/ \E h \in Handles : \E k \in AppKeys : Delete(h, k)
    \/ \E h \in Handles : TakeSnapshot(h)
    \/ \E h \in Handles : \E sel \in Selectors :
            proxies[h] = Obj(Root) /\ Subscribe(h, sel, "store")
    \/ BeginChange
    \/ EndChange

SpecSub == Init /\ [][NextSub]_vars

\* The application of the dynamic-dependency test: the selector s => s[s.key]
\* on the root, writes of a, b and key.
NextDyn ==
    \/ MakeReactive
    \/ \E h \in Handles : \E k \in AppKeys : \E v \in Scalars : Write(h, k, v)
    \/ \E h \in Handles : \E k \in AppKeys : Write(h, "key", Str(k))
    \/ \E h \in Handles : Subscribe(h, Selector("dynamic", "key"), "store")
    \/ BeginChange
    \/ EndChange

SpecDyn == InitDyn /\ [][NextDyn]_vars

\* The data of the flush-time mutations: {a: 0, b: 0}.
InitHeapFlush ==
    <<NewObject(FALSE, <<"a", "b">>,
                [NoProps EXCEPT !["a"] = Num(0), !["b"] = Num(0)], 0)>>

InitFlush == InitWith(InitHeapFlush)

\* The application whose callbacks write: subscriptions to a with each of the
\* callbacks, subscriptions to b that store, writes of a and b.
NextFlush ==
    \/ MakeReactive
    \/ \E h \in Handles : \E k \in AppKeys : \E v \in Scalars : Write(h, k, v)
    \/ \E h \in Handles : \E cb \in Callbacks :
            Subscribe(h, Selector("get", "a"), cb)
    \/ \E h \in Handles : Subscribe(h, Selector("get", "b"), "store")
    \/ BeginChange
    \/ EndChange

SpecFlush == InitFlush /\ [][NextFlush]_vars

\* The objects of the application: the plain objects that are no snapshots.
RawObjects == {Obj(i) : i \in (1..Len(heap)) \ snapshotsSet}

\* The application that misuses the functions: takeSnapshot and
\* applySnapshot of objects in place of their handles, assignments to
\* snapshots and deletes from them, directly and through the handle that
\* stores the snapshot; with a subscription, snapshots, stored snapshots and
\* writes.
NextErr ==
    \/ MakeReactive
    \/ \E h \in Handles : \E k \in KeysOf(h) : Read(h, k)
    \/ \E h \in Handles : proxies[h] = Obj(Root) /\ Write(h, "a", Num(1))
    \/ \E h \in Handles : \E k \in AppKeys :
            /\ proxies[h] = Obj(Root)
            /\ snap1 # NoSnap
            /\ Write(h, k, Obj(snap1.ref))
    \/ \E h \in Handles : TakeSnapshot(h)
    \/ \E h \in Handles :
            proxies[h] = Obj(Root) /\ Subscribe(h, Selector("get", "a"), "store")
    \/ \E value \in RawObjects : TakeSnapshotOf(value)
    \/ \E value \in {Num(0), Undefined} : TakeSnapshotOf(value)
    \/ snap1 # NoSnap /\ TakeSnapshotOf(Obj(snap1.ref))
    \/ \E object \in RawObjects :
            snap1 # NoSnap /\ ApplySnapshotTo(object, snap1.ref)
    \/ \E s \in snapshotsSet : \E k \in AppKeys : AssignToSnapshot(s, k, Num(1))
    \/ \E s \in snapshotsSet : \E k \in AppKeys : DeleteFromSnapshot(s, k)
    \/ \E h \in Handles : \E k \in KeysOf(h) : \E k2 \in AppKeys :
            AssignThrough(h, k, k2, Num(1))

SpecErr == Init /\ [][NextErr]_vars

\* The globals when the module is loaded, with the application's objects h.
Loaded(h) ==
    [heap |-> h, proxies |-> <<>>, proxyCache |-> <<>>,
     parentProxyCache |-> <<>>, snapshotsCache |-> <<>>, snapshotsSet |-> {},
     callbacksCache |-> <<>>, invalidatedCallbacks |-> <<>>,
     callbackSubscriptionsCache |-> [c \in 1..MaxSubs |-> {}],
     currentCallbacks |-> <<>>, subs |-> <<>>,
     delivered |-> [c \in 1..MaxSubs |-> Undefined], calls |-> <<>>,
     lastRun |-> [c \in 1..MaxSubs |-> {}], hit |-> {}, touched |-> {},
     written |-> {}, dirty |-> {}, reads |-> {}, clears |-> 0, stores |-> 0,
     same |-> 0, last |-> NoCall, threw |-> FALSE, over |-> FALSE,
     stack |-> {}, diverged |-> FALSE]

\* The data of the restoring tests, a record in a record in a record:
\* {a: {a: {a: 0}}, b: 0}.
InitHeapApply ==
    <<NewObject(FALSE, <<"a", "b">>,
                [NoProps EXCEPT !["a"] = Obj(2), !["b"] = Num(0)], 0),
      NewObject(FALSE, <<"a">>, [NoProps EXCEPT !["a"] = Obj(3)], 0),
      NewObject(FALSE, <<"a">>, [NoProps EXCEPT !["a"] = Num(0)], 0)>>

\* The application's first statements:
\*   h = makeReactive(root); c = h.a; d = c.a; c.a = 0
\* which leave d, a handle of an object that is no longer in the tree.
Detached ==
    LET Assigned(d) == set(d.g, 2, "a", Num(0)).g
        Inner(c) == Assigned(get(c.g, c.v.id, "a"))
        Outer(h) == Inner(get(h.g, h.v.id, "a"))
    IN  Outer(makeReactive(Loaded(InitHeapApply), Obj(Root)))

InitApply ==
    /\ heap = Detached.heap
    /\ proxies = Detached.proxies
    /\ proxyCache = Detached.proxyCache
    /\ parentProxyCache = Detached.parentProxyCache
    /\ snapshotsCache = Detached.snapshotsCache
    /\ snapshotsSet = Detached.snapshotsSet
    /\ callbacksCache = Detached.callbacksCache
    /\ invalidatedCallbacks = Detached.invalidatedCallbacks
    /\ callbackSubscriptionsCache = Detached.callbackSubscriptionsCache
    /\ currentCallbacks = Detached.currentCallbacks
    /\ subs = Detached.subs
    /\ delivered = Detached.delivered
    /\ inChange = FALSE
    /\ calls = Detached.calls
    /\ lastRun = Detached.lastRun
    /\ hit = Detached.hit
    /\ touched = Detached.touched
    /\ written = Detached.written
    /\ dirty = Detached.dirty
    /\ snap1 = NoSnap
    /\ writes = 0
    /\ last = NoCall

\* The application of the restoring tests: writes at every handle,
\* snapshots, applySnapshot of the latest snapshot, and subscriptions to
\* single keys of the root.
NextApply ==
    \/ \E h \in Handles : \E k \in AppKeys : \E v \in Scalars : Write(h, k, v)
    \/ \E h \in Handles : TakeSnapshot(h)
    \/ \E h \in Handles : snap1 # NoSnap /\ ApplySnapshot(h, snap1.ref)
    \/ \E h \in Handles : \E k \in AppKeys :
            proxies[h] = Obj(Root) /\ Subscribe(h, Selector("get", k), "store")

SpecApply == InitApply /\ [][NextApply]_vars

\* The data of the Object.keys and `in` tests: {a: 0}.
InitHeapKeys ==
    <<NewObject(FALSE, <<"a">>, [NoProps EXCEPT !["a"] = Num(0)], 0)>>

InitKeys == InitWith(InitHeapKeys)

\* The application of the Object.keys and `in` tests: subscriptions to the
\* keys of the root and to the presence of a key, assignments that add a key
\* or reassign one, deletes of keys that exist.
NextKeys ==
    \/ MakeReactive
    \/ \E h \in Handles : \E k \in AppKeys : \E v \in Scalars : Write(h, k, v)
    \/ \E h \in Handles : \E k \in AppKeys :
            HasOwn(heap[RawId(G, h)], k) /\ Delete(h, k)
    \/ \E h \in Handles : Subscribe(h, Selector("keys", OWN_KEYS), "store")
    \/ \E h \in Handles : \E k \in AppKeys :
            Subscribe(h, Selector("has", k), "store")
    \/ BeginChange
    \/ EndChange

SpecKeys == InitKeys /\ [][NextKeys]_vars

\* The plain objects that can be reached from plain object i through its
\* values, those stored as a proxy included.
RECURSIVE ReachAll(_, _)
ReachAll(g, i) ==
    {i} \cup UNION {ReachAll(g, IF g.heap[i].val[k].t = "proxy"
                                THEN RawId(g, g.heap[i].val[k].id)
                                ELSE g.heap[i].val[k].id) :
                       k \in {k \in Range(g.heap[i].keys) :
                                  isMutable(g, g.heap[i].val[k])}}

\* h[k] = x for a handle x, as in h.b = h.a; the application builds no cycle.
WriteHandle(h, k, x) ==
    /\ RawId(G, h) \notin ReachAll(G, RawId(G, x))
    /\ Write(h, k, Proxy(x))

\* The application that stores handles in the tree: h[k] = x for handles h
\* and x, reads, primitive writes and snapshots.
NextAlias ==
    \/ MakeReactive
    \/ \E h \in Handles : \E k \in KeysOf(h) : Read(h, k)
    \/ \E h \in Handles : \E k \in AppKeys : \E x \in Handles :
            WriteHandle(h, k, x)
    \/ \E h \in Handles : \E k \in AppKeys : Write(h, k, Num(1))
    \/ \E h \in Handles : TakeSnapshot(h)

SpecAlias == Init /\ [][NextAlias]_vars

\* The application whose selectors throw or subscribe: subscriptions to
\* o => o.a.a and to a selector that itself subscribes, reads, writes and
\* deletes, within applyChange or not.
NextTrack ==
    \/ MakeReactive
    \/ \E h \in Handles : \E k \in KeysOf(h) : Read(h, k)
    \/ \E h \in Handles : \E k \in AppKeys : Write(h, k, Num(1))
    \/ \E h \in Handles : \E k \in AppKeys : Delete(h, k)
    \/ \E h \in Handles :
            proxies[h] = Obj(Root) /\ Subscribe(h, Selector("path", "a"), "store")
    \/ \E h \in Handles :
            /\ proxies[h] = Obj(Root)
            /\ Subscribe(h, Selector("subscribing", "a"), "store")
    \/ BeginChange
    \/ EndChange

SpecTrack == Init /\ [][NextTrack]_vars

\* The application whose callbacks call applyChange whatever they receive:
\* subscriptions to a and to b with callbacks that store and callbacks that
\* call applyChange, writes of a and b within applyChange or not.
NextLoop ==
    \/ MakeReactive
    \/ \E h \in Handles : \E k \in AppKeys : \E v \in Scalars : Write(h, k, v)
    \/ \E h \in Handles : \E k \in AppKeys : \E cb \in {"store", "always"} :
            Subscribe(h, Selector("get", k), cb)
    \/ BeginChange
    \/ EndChange

SpecLoop == InitFlush /\ [][NextLoop]_vars

\* The application's data {a: {a: 0}} after the application has applied
\* Object.freeze to the objects in `cold`: all their properties are
\* non-writable and non-configurable.
ColdHeap(cold) ==
    <<[InitHeap[1] EXCEPT !.frozen = 1 \in cold],
      [InitHeap[2] EXCEPT !.frozen = 2 \in cold]>>

InitCold == \E cold \in SUBSET {1, 2} : InitWith(ColdHeap(cold))

\* The property `key` of the proxy's object is a non-writable,
\* non-configurable data property.
FrozenField(g, proxy, key) ==
    /\ g.heap[RawId(g, proxy)].frozen
    /\ HasOwn(g.heap[RawId(g, proxy)], key)

\* proxy[key]: the get trap, followed by the check that every Proxy makes of
\* its get trap's result: ok is FALSE for the TypeError thrown when the
\* property is a non-writable, non-configurable data property of the target
\* and the trap reports another value than the property's.
ProxyGet(g, proxy, key) ==
    LET r == get(g, proxy, key)
    IN  [g |-> r.g, v |-> r.v,
         ok |-> ~(/\ FrozenField(g, proxy, key)
                  /\ r.v # Reflect_get(g.heap[RawId(g, proxy)], key))]

\* The handles the application holds: makeReactive's, and those a read has
\* returned.
Held(h) == proxies[h] = Obj(Root) \/ ~heap[Root].frozen

\* h[k], its outcome recorded
ReadField(h, k) ==
    /\ LET r == ProxyGet(G, h, k)
       IN  Commit([r.g EXCEPT !.last = [NoCall EXCEPT !.op = "get",
                                                      !.proxy = h,
                                                      !.arg = Str(k),
                                                      !.v = r.v,
                                                      !.ok = r.ok]])
    /\ UNCHANGED <<inChange, snap1, writes>>

\* The application with frozen data: reads, writes, and subscriptions whose
\* selector o => o[k] returns.
NextCold ==
    \/ MakeReactive
    \/ \E h \in Handles : \E k \in AppKeys : Held(h) /\ ReadField(h, k)
    \/ \E h \in Handles : \E k \in AppKeys : \E v \in Scalars :
            Held(h) /\ Write(h, k, v)
    \/ \E h \in Handles : \E k \in AppKeys :
            /\ Held(h)
            /\ ProxyGet(G, h, k).ok
            /\ Subscribe(h, Selector("get", k), "store")

SpecCold == InitCold /\ [][NextCold]_vars

\* =============================================================== claims
\* snapshot describes value: the same kind, keys in the same order, the same
\* length, and at every key the snapshot of the child (a primitive or a
\* stored snapshot is its own snapshot).
RECURSIVE DeepEqual(_, _, _)
DeepEqual(g, snapshot, value) ==
    IF value.t = "proxy"
    THEN DeepEqual(g, snapshot, Obj(RawId(g, value.id)))
    ELSE IF ~isMutable(g, value)
    THEN snapshot = value
    ELSE /\ snapshot.t = "object"
         /\ snapshot.id \in g.snapshotsSet
         /\ LET s == g.heap[snapshot.id]
                o == g.heap[value.id]
                keys == IF o.arr
                        THEN SelectSeq(o.keys, LAMBDA k : k \in IndexKeys)
                        ELSE o.keys
            IN  /\ s.arr = o.arr
                /\ s.keys = keys
                /\ s.length = o.length
                /\ \A k \in Range(keys) : DeepEqual(g, s.val[k], o.val[k])

Subtree(h) == Reach(G, RawId(G, h))

\* C2: two takeSnapshot(h) calls with no write or delete in h's subtree
\* between them return the same snapshot: after takeSnapshot(h) returned
\* snap1.ref, as long as nothing in h's subtree is written, takeSnapshot(h)
\* returns snap1.ref again.
C2_SnapshotReuse ==
    (snap1 # NoSnap /\ written \cap Subtree(snap1.proxy) = {}) =>
        takeSnapshot(G, Proxy(snap1.proxy)).v = Obj(snap1.ref)

\* C2's case where it fails: a handle detached from h is written after
\* takeSnapshot(h), and h's cached snapshot is tombstoned by it.
C2_Witness ==
    /\ snap1 # NoSnap
    /\ written # {}
    /\ written \cap Subtree(snap1.proxy) = {}
    /\ snapshotsCache[snap1.proxy] = NullSnapshot

\* The proxies on the parent chain of proxy w, w included.
RECURSIVE ParentChain(_)
ParentChain(w) ==
    {w} \cup (IF parentProxyCache[w] = NullParent THEN {}
              ELSE ParentChain(parentProxyCache[w]))

\* The proxies whose cached snapshot the step from G to g tombstones.
Tombstoned(g) ==
    {p \in Handles : snapshotsCache[p] # NullSnapshot
                        /\ g.snapshotsCache[p] = NullSnapshot}

\* The keys of h under which a child object of the tree sits.
ChildKeys(h) ==
    {k \in Range(heap[RawId(G, h)].keys) :
        isMutable(G, heap[RawId(G, h)].val[k])}

C4_SnapshotImmutable ==
    [][\A s \in snapshotsSet : heap'[s] = heap[s]]_vars

\* C4's case: a snapshot of the root that the tree has moved away from, the
\* root itself having been written since.
C4_Witness ==
    /\ \E s \in snapshotsSet :
          /\ heap[s].of # 0
          /\ proxies[heap[s].of] = Obj(Root)
          /\ ~DeepEqual(G, Obj(s), Obj(Root))
    /\ Root \in written

\* C5: each raw object has exactly one proxy: no two proxies wrap the same
\* value, proxyCache gives every proxy for its own target, makeReactive of a
\* wrapped object returns its proxy and creates none, and reading a key of a
\* handle twice returns the same child handle.
C5_IdentityStable ==
    /\ \A p, q \in Handles : proxies[p] = proxies[q] => p = q
    /\ \A p \in Handles :
          /\ proxies[p] \in DOMAIN proxyCache
          /\ proxyCache[proxies[p]] = p
          /\ LET r == makeReactive(G, proxies[p])
             IN  r.v = Proxy(p) /\ r.g.proxies = proxies
    /\ \A h \in Handles : \A k \in KeysOf(h) :
          LET r1 == get(G, h, k)
              r2 == get(r1.g, h, k)
          IN  r1.v = r2.v /\ r2.g.proxies = r1.g.proxies

\* C5's case: the root and two objects below it have their handles, after
\* snapshots and writes.
C5_Witness ==
    /\ Len(proxies) >= 3
    /\ snap1 # NoSnap
    /\ writes = MaxWrites

\* The value stored at key k of handle h is a snapshot.
StoredSnapshot(h, k) ==
    LET value == Reflect_get(heap[RawId(G, h)], k)
    IN  value.t = "object" /\ value.id \in snapshotsSet

\* C6: a snapshot s stored at h.k is treated as immutable: reading h.k
\* returns s and creates no proxy, takeSnapshot(s) is s, and takeSnapshot(h)
\* has s itself at key k.
C6_StoredSnapshot ==
    \A h \in Handles : \A k \in KeysOf(h) :
        StoredSnapshot(h, k) =>
            LET s == Reflect_get(heap[RawId(G, h)], k)
                read == get(G, h, k)
                r == takeSnapshot(G, Proxy(h))
            IN  /\ read.v = s
                /\ read.g.proxies = proxies
                /\ takeSnapshot(G, s).v = s
                /\ takeSnapshot(G, s).g.heap = heap
                /\ r.g.heap[r.v.id].val[k] = s

\* C6's case: a snapshot is stored in a handle whose own snapshot, taken
\* later, is cached and holds it.
C6_Witness ==
    \E h \in Handles : \E k \in KeysOf(h) :
        /\ StoredSnapshot(h, k)
        /\ snapshotsCache[h] # NullSnapshot
        /\ heap[snapshotsCache[h]].val[k] = Reflect_get(heap[RawId(G, h)], k)

\* The step is the return of applyChange: notifySubscribers has run.
Flush == inChange /\ ~inChange'

\* C7: no write or delete invokes a callback, it only adds callbacks to the
\* invalidated set; when applyChange returns, every callback of the set has
\* been invoked, once, whenever it was invalidated, and the set is empty.
C7_BatchedNotification ==
    [][/\ writes' # writes =>
            /\ calls' = calls
            /\ delivered' = delivered
            /\ lastRun' = lastRun
            /\ Range(invalidatedCallbacks) \subseteq Range(invalidatedCallbacks')
       /\ Flush =>
            /\ calls' = calls \o invalidatedCallbacks
            /\ invalidatedCallbacks' = <<>>]_vars

\* C7's case: an applyChange has returned after invoking two callbacks that
\* writes had invalidated.
C7_Witness ==
    /\ ~inChange
    /\ Len(calls) = 2
    /\ writes > 0
    /\ invalidatedCallbacks = <<>>

\* C8: a flush invokes a callback only if, since the callback's latest run, a
\* write or delete hit a pair that run read or changed the keys of a handle
\* whose keys it enumerated.
C8_Precision ==
    [][Flush => \A i \in Len(calls) + 1..Len(calls') : calls'[i] \in hit]_vars

\* C8's case where it fails: a callback is invalidated although no write or
\* delete since its latest run hit a pair that run read.
C8_Witness ==
    /\ inChange
    /\ \E c \in Range(invalidatedCallbacks) : c \notin hit

\* The subscriptions of the selector s => s[s.key].
Dynamic == {c \in 1..Len(subs) : subs[c].selector.kind = "dynamic"}

\* C9: the dependencies of a subscription are those of its latest run: the
\* callback is registered at exactly the pairs its latest run read, a flush
\* invokes it exactly when a write since that run hit one of these pairs, and
\* the invocation delivers the current s[s.key].
C9_DynamicDependencies ==
    [][/\ \A c \in Dynamic : \A p \in Handles : \A k \in TrackedKeys :
            c \in Range(callbacksCache[p][k]) <=> <<p, k>> \in lastRun[c]
       /\ Flush =>
            \A c \in Dynamic :
                /\ c \in Range(calls') <=> c \in hit
                /\ c \in Range(calls') =>
                       delivered'[c] =
                           heap[Root].val[ToPropertyKey(heap[Root].val["key"])]]_vars

\* C9's case: an applyChange that changed key from "a" to "b" has returned,
\* the callback was invoked, and its dependencies are key and b, not a.
C9_Witness ==
    /\ ~inChange
    /\ heap[Root].val["key"] = Str("b")
    /\ \E c \in Dynamic :
          /\ calls = <<c>>
          /\ lastRun[c] = {<<subs[c].proxy, "key">>, <<subs[c].proxy, "b">>}
          /\ c \notin Range(callbacksCache[subs[c].proxy]["a"])

\* C10: a flush invokes the callback of every subscription of a selector
\* o => takeSnapshot(o[k]) whose subtree o[k] was written since its latest
\* run.
C10_SnapshotSelector ==
    [][Flush => \A c \in touched : c \in Range(calls')]_vars

\* C10's case where it fails: the subtree of a snapshot subscription was
\* written in a change, and the callback is not invalidated.
C10_Witness ==
    /\ inChange
    /\ \E c \in touched : c \notin Range(invalidatedCallbacks)

\* C11: when the outermost applyChange returns, no callback is left dirtied
\* since its latest invocation: every callback that invalidateCallbacks added
\* to the invalidated set, before or during the flush, has been invoked after
\* that.
C11_NoLostNotification ==
    [][Flush => dirty' = {}]_vars

\* C11's case where it fails: an applyChange has returned after invoking
\* callbacks, and a callback that was dirtied during the flush, after its
\* invocation, has been dropped from the invalidated set.
C11_Witness ==
    /\ ~inChange
    /\ calls # <<>>
    /\ dirty # {}
    /\ invalidatedCallbacks = <<>>

\* C12: within one applyChange call no callback is invoked more than once.
C12_AtMostOnce ==
    [][Flush => \A i, j \in 1..Len(calls') :
                    i # j => calls'[i] # calls'[j]]_vars

\* C12's case where it fails: an applyChange has returned after invoking a
\* callback that called applyChange itself, and a callback was invoked twice.
C12_Witness ==
    /\ ~inChange
    /\ \E c \in Range(calls) : subs[c].callback = "nested"
    /\ \E i, j \in 1..Len(calls) : i # j /\ calls[i] = calls[j]

\* The subscriptions of the selector o => Object.keys(o).
Enumerating == {c \in 1..Len(subs) : subs[c].selector.kind = "keys"}

\* C13: a flush invokes a callback whose selector enumerated the keys of h
\* when a key was added to h or deleted from h since the selector's latest
\* run, and does not invoke it when existing keys were only reassigned; the
\* invocation delivers the current keys.
C13_EnumerationSubscription ==
    [][Flush =>
         \A c \in Enumerating :
            /\ c \in Range(calls') <=> c \in hit
            /\ c \in Range(calls') =>
                   delivered'[c] = Str(Join(heap[RawId(G, subs[c].proxy)].keys))]_vars

\* C13's case: an applyChange that added key b has returned and the callback
\* enumerating the keys was invoked with the keys a and b.
C13_Witness ==
    /\ ~inChange
    /\ \E c \in Enumerating :
          /\ c \in Range(calls)
          /\ delivered[c] = Str("a,b")

\* The subscriptions of the selector o => k in o.
Existence == {c \in 1..Len(subs) : subs[c].selector.kind = "has"}

\* C14: a flush invokes a callback whose selector evaluated `k in h` when k
\* was assigned to h or deleted from h since the selector's latest run.
C14_ExistenceSubscription ==
    [][Flush => \A c \in Existence : c \in hit => c \in Range(calls')]_vars

\* C14's case where it fails: in a change, the key that a callback's selector
\* tested with `in` was deleted, and the callback is not invalidated.
C14_Witness ==
    /\ inChange
    /\ \E c \in Existence :
          /\ c \in hit
          /\ c \notin Range(invalidatedCallbacks)
          /\ delivered[c] = Bool(TRUE)
          /\ ~HasOwn(heap[RawId(G, subs[c].proxy)], subs[c].selector.key)

\* Two snapshots (or primitives) are deep-equal: the same primitive, or
\* objects of the same kind with the same key set and deep-equal values.
RECURSIVE SnapshotsEqual(_, _, _)
SnapshotsEqual(g, x, y) ==
    IF x.t = "object" /\ y.t = "object"
    THEN /\ g.heap[x.id].arr = g.heap[y.id].arr
         /\ Range(g.heap[x.id].keys) = Range(g.heap[y.id].keys)
         /\ g.heap[x.id].length = g.heap[y.id].length
         /\ \A k \in Range(g.heap[x.id].keys) :
                SnapshotsEqual(g, g.heap[x.id].val[k], g.heap[y.id].val[k])
    ELSE x = y

\* The application has just called applySnapshot(h, s), s taken of h earlier.
Applied == last.op = "apply"

\* C15: after applySnapshot(h, s), for a snapshot s taken of h earlier,
\* takeSnapshot(h) is deep-equal to s.
C15_RoundTrip ==
    Applied =>
        /\ last.ok
        /\ LET r == takeSnapshot(G, Proxy(last.proxy))
           IN  r.ok /\ SnapshotsEqual(r.g, r.v, Obj(last.ref))

\* C15's case where it fails: applySnapshot(h, s) has returned without an
\* error, and a value of the tree differs from the snapshot's.
C15_Witness ==
    /\ Applied
    /\ last.ok
    /\ \E k \in Range(heap[last.ref].keys) :
          LET mine == Reflect_get(heap[RawId(G, last.proxy)], k)
              theirs == heap[last.ref].val[k]
          IN  /\ theirs.t = "number"
              /\ mine.t = "object"

\* C16: after applySnapshot(h, s) every key of h is a key of s: a key added
\* to h since s was taken is no longer in h, nor in takeSnapshot(h).
C16_AddedKeysRemoved ==
    Applied =>
        /\ Range(heap[RawId(G, last.proxy)].keys) \subseteq Range(heap[last.ref].keys)
        /\ LET r == takeSnapshot(G, Proxy(last.proxy))
           IN  r.ok /\ Range(r.g.heap[r.v.id].keys) \subseteq Range(heap[last.ref].keys)

\* C16's case where it fails: applySnapshot(h, s) has returned and h still
\* has a key, now undefined, that s does not have.
C16_Witness ==
    /\ Applied
    /\ last.ok
    /\ \E k \in Range(heap[RawId(G, last.proxy)].keys) :
          /\ k \notin Range(heap[last.ref].keys)
          /\ Reflect_get(heap[RawId(G, last.proxy)], k) = Undefined

\* C18: after applySnapshot(h, s), a second applySnapshot(h, s) calls the set
\* trap for no key and leaves every object of the tree, and the invalidated
\* callbacks, as they are.
C18_IdempotentApply ==
    Applied =>
        LET r == applySnapshot(G, Proxy(last.proxy), Obj(last.ref))
        IN  /\ r.ok = last.ok
            /\ r.g.stores = 0
            /\ \A i \in 1..Len(heap) : r.g.heap[i] = heap[i]
            /\ r.g.invalidatedCallbacks = invalidatedCallbacks

\* C18's case: an applySnapshot(h, s) that called the set trap has returned.
C18_Witness ==
    /\ Applied
    /\ last.ok
    /\ last.stores > 0

\* The value at key k of snapshot s is the snapshot of the child at key k of
\* handle h.
SnapshotOfChild(s, h, k) ==
    LET theirs == heap[s].val[k]
        child == heap[RawId(G, h)].val[k]
    IN  /\ theirs.t = "object"
        /\ theirs.id \in snapshotsSet
        /\ heap[theirs.id].of # 0
        /\ proxies[heap[theirs.id].of] = child

\* C17: an applySnapshot(h, s) step calls the set trap for no key when
\* takeSnapshot(h) is s already, and otherwise for no key that holds the
\* value assigned; a child of h whose subtree was not written since s was
\* taken has, in takeSnapshot(h) after the step, the snapshot it has in s; a
\* callback is dirtied by the step only if a key its selector read has a new
\* value.
C17_ApplyFrame ==
    [][last'.op = "apply" =>
         LET h == last'.proxy
             s == last'.ref
         IN  /\ takeSnapshot(G, Proxy(h)).v = Obj(s) =>
                    /\ last'.stores = 0
                    /\ heap' = heap
                    /\ snapshotsCache' = snapshotsCache
                    /\ invalidatedCallbacks' = invalidatedCallbacks
             /\ last'.same = 0
             /\ \A k \in ChildKeys(h) :
                    (/\ SnapshotOfChild(s, h, k)
                     /\ Reach(G, heap[RawId(G, h)].val[k].id) \cap written = {}) =>
                        LET r == takeSnapshot(G', Proxy(h))
                        IN  r.g.heap[r.v.id].val[k] = heap[s].val[k]
             /\ \A c \in dirty' \ dirty :
                    \E pair \in lastRun[c] :
                        Reflect_get(heap'[RawId(G, pair[1])], pair[2])
                            # Reflect_get(heap[RawId(G, pair[1])], pair[2])]_vars

\* C17's case where it fails: an applySnapshot(h, s) that called the set trap
\* for no key has returned, no object of h's tree was written since s was
\* taken, and the child of h no longer has the snapshot it has in s.
C17_Witness ==
    /\ Applied
    /\ last.stores = 0
    /\ written \cap Subtree(last.proxy) = {}
    /\ \E k \in ChildKeys(last.proxy) :
          /\ SnapshotOfChild(last.ref, last.proxy, k)
          /\ takeSnapshot(G, heap[RawId(G, last.proxy)].val[k]).v = Undefined
          /\ LET r == takeSnapshot(G, Proxy(last.proxy))
             IN  r.g.heap[r.v.id].val[k] # heap[last.ref].val[k]

\* The step leaves the module's tables and the application's objects as they
\* are.
NothingChanged ==
    UNCHANGED <<heap, proxies, proxyCache, parentProxyCache, snapshotsCache,
                snapshotsSet, callbacksCache, invalidatedCallbacks,
                callbackSubscriptionsCache, currentCallbacks, subs, delivered,
                calls, lastRun, dirty>>

\* C19: takeSnapshot of an object that is not a handle (wrapped already or
\* not), and applySnapshot to one, throw, create no proxy and leave the
\* snapshot cache, the subscription tables and the invalidated set unchanged;
\* takeSnapshot of a primitive or of a snapshot returns its argument and
\* changes nothing.
C19_UntrackedValue ==
    [][/\ last'.op = "takeSnapshot" =>
            /\ NothingChanged
            /\ IF last'.arg \in RawObjects
               THEN ~last'.ok
               ELSE last'.ok /\ last'.v = last'.arg
       /\ last'.op = "applySnapshot" =>
            /\ NothingChanged
            /\ ~last'.ok]_vars

\* C19's case: takeSnapshot of the root object itself has thrown, the root
\* having its handle, a cached snapshot and a subscriber that is invalidated.
C19_Witness ==
    /\ last.op = "takeSnapshot"
    /\ last.arg = Obj(Root)
    /\ ~last.ok
    /\ Obj(Root) \in DOMAIN proxyCache
    /\ \E h \in Handles : snapshotsCache[h] # NullSnapshot
    /\ invalidatedCallbacks # <<>>

\* C20 as stated: an assignment to a key of a snapshot or a delete of one,
\* made on the snapshot or through the handle that stores it, throws and
\* changes no object.
C20_Original ==
    [][last'.op \in {"assign", "delete"} => ~last'.ok /\ heap' = heap]_vars

\* C20: an assignment to a key of a snapshot, made on the snapshot or through
\* the handle that stores it, throws; a delete throws when the snapshot has
\* the key and returns when it has not; none of them changes an object.
C20_ImmutabilityViolation ==
    [][/\ last'.op = "assign" => ~last'.ok /\ heap' = heap
       /\ last'.op = "delete" =>
            /\ last'.ok <=> ~HasOwn(heap[last'.ref], last'.arg.s)
            /\ heap' = heap]_vars

\* C20's case: an assignment through the handle that stores a snapshot, to a
\* snapshot that holds a snapshot, has thrown.
C20_Witness ==
    /\ last.op = "assign"
    /\ last.proxy # 0
    /\ ~last.ok
    /\ \E k \in KeysOf(last.proxy) :
          /\ StoredSnapshot(last.proxy, k)
          /\ \E k2 \in AppKeys :
                LET inner == heap[Reflect_get(heap[RawId(G, last.proxy)], k).id].val[k2]
                IN  inner.t = "object" /\ inner.id \in snapshotsSet

\* The subscribe call that a step makes: the step adds subs'[Len(subs')].
Subscribing == Len(subs') = Len(subs) + 1

Deleted(h, k) ==
    /\ HasOwn(heap[RawId(G, h)], k)
    /\ ~HasOwn(heap'[RawId(G, h)], k)

\* C22: a step that deletes key k of handle h tombstones the snapshot of h and
\* of every handle whose tree holds h's object, and adds to the invalidated
\* callbacks every dependent of (h, k) and every dependent of h's key-set
\* pseudo-key.
C22_DeleteAsWrite ==
    [][\A h \in Handles : \A k \in AppKeys :
          Deleted(h, k) =>
              /\ \A p \in Handles :
                    RawId(G, h) \in Subtree(p) => snapshotsCache'[p] = NullSnapshot
              /\ Range(callbacksCache[h][k]) \subseteq Range(invalidatedCallbacks')
              /\ Range(callbacksCache[h][OWN_KEYS])
                    \subseteq Range(invalidatedCallbacks')
      ]_vars

\* C22's case: the key that a subscription's selector o => o.a read has been
\* deleted within applyChange, and the subscription's re-run function is not
\* among the invalidated callbacks.
C22_Witness ==
    /\ inChange
    /\ \E c \in 1..Len(subs) :
          /\ subs[c].selector = Selector("get", "a")
          /\ ~HasOwn(heap[RawId(G, subs[c].proxy)], "a")
          /\ c \in hit
          /\ <<subs[c].proxy, "a">> \in callbackSubscriptionsCache[c]
          /\ c \notin Range(invalidatedCallbacks)

\* The step assigns key k of handle h: the key is an own key after it, and
\* it was none before it or had another value.
Assigned(h, k) ==
    /\ HasOwn(heap'[RawId(G, h)], k)
    /\ \/ ~HasOwn(heap[RawId(G, h)], k)
       \/ Reflect_get(heap'[RawId(G, h)], k) # Reflect_get(heap[RawId(G, h)], k)

\* C23: every pair (h, k) that the latest run of a subscription's selector
\* read, the key being an own key of h or not, is in the recorded set of its
\* re-run function, and a step that assigns k of h adds to the invalidated
\* callbacks every re-run function whose latest run read (h, k).
C23_ReadsAreDependencies ==
    [][/\ \A c \in 1..Len(subs') :
            lastRun'[c] \subseteq callbackSubscriptionsCache'[c]
       /\ \A h \in Handles : \A k \in AppKeys :
            Assigned(h, k) =>
                \A c \in 1..Len(subs) :
                    <<h, k>> \in lastRun[c] =>
                        c \in Range(invalidatedCallbacks')
      ]_vars

\* C23's case: a subscription's selector o => o.a ran while the handle had
\* no key a, the key was assigned within applyChange, and the subscription's
\* re-run function is not among the invalidated callbacks.
C23_Witness ==
    /\ inChange
    /\ \E c \in 1..Len(subs) :
          /\ subs[c].selector = Selector("get", "a")
          /\ <<subs[c].proxy, "a">> \in lastRun[c]
          /\ <<subs[c].proxy, "a">> \notin callbackSubscriptionsCache[c]
          /\ delivered[c] = Undefined
          /\ HasOwn(heap[RawId(G, subs[c].proxy)], "a")
          /\ c \in hit
          /\ c \notin Range(invalidatedCallbacks)

\* C24: in every state where no selector is executing, a re-run function c is
\* a dependent of the pair (h, k) exactly when (h, k) is in c's recorded set,
\* and c's recorded set is the set of pairs that c's latest run read.
C24_IndicesConsistent ==
    currentCallbacks = <<>> =>
        \A c \in 1..Len(subs) :
            /\ \A h \in Handles : \A k \in TrackedKeys :
                  c \in Range(callbacksCache[h][k])
                      <=> <<h, k>> \in callbackSubscriptionsCache[c]
            /\ callbackSubscriptionsCache[c] = lastRun[c]

\* C24's case where it fails: after a flush re-ran a selector that reads
\* other keys than in its run before, its re-run function is no dependent of
\* a pair of the earlier run, and the pair still is in its recorded set.
C24_Witness ==
    /\ currentCallbacks = <<>>
    /\ calls # <<>>
    /\ \E c \in Dynamic : \E k \in AppKeys :
          /\ <<subs[c].proxy, k>> \in callbackSubscriptionsCache[c]
          /\ <<subs[c].proxy, k>> \notin lastRun[c]
          /\ c \notin Range(callbacksCache[subs[c].proxy][k])

\* C25: in every state, when the snapshot slot of a handle is tombstoned, the
\* slot of every handle on its parent chain is tombstoned too.
C25_TombstonesClosedUpward ==
    \A h \in Handles :
        snapshotsCache[h] = NullSnapshot =>
            \A p \in ParentChain(h) : snapshotsCache[p] = NullSnapshot

\* C25's case where it fails: a handle whose object was taken out of the tree
\* of its parent handle has a tombstoned slot, and the parent a cached
\* snapshot.
C25_Witness ==
    \E h \in Handles :
        /\ snapshotsCache[h] = NullSnapshot
        /\ parentProxyCache[h] # NullParent
        /\ snapshotsCache[parentProxyCache[h]] # NullSnapshot
        /\ RawId(G, h) \notin Subtree(parentProxyCache[h])

\* C26: where a handle x is stored at key k of handle h, the read of h[k]
\* returns x and makes no proxy, and no proxy has a proxy for its target.
C26_NoDoubleWrap ==
    /\ \A h \in Handles : \A k \in AppKeys :
          LET x == Reflect_get(heap[RawId(G, h)], k)
          IN  x.t = "proxy" =>
                  /\ get(G, h, k).v = x
                  /\ get(G, h, k).g.proxies = proxies
    /\ \A p \in Handles : proxies[p].t = "object"

\* C26's case where it fails: the handle x of h.a was stored at h.b, and the
\* read of h.b has returned a second proxy, made around x.
C26_Witness ==
    \E h, x, p \in Handles :
        /\ proxies[h] = Obj(Root)
        /\ proxies[x] = heap[Root].val["a"]
        /\ heap[Root].val["b"] = Proxy(x)
        /\ proxies[p] = Proxy(x)
        /\ parentProxyCache[p] = h

\* C27: in every state (no selector is executing between the application's
\* calls) the set of currently tracking callbacks is empty, and a re-run
\* function is a dependent of a pair only when its own selector read the pair
\* in its latest run: no read of the application, of a callback or of another
\* subscription's selector has made it one.
C27_ReadsAttributed ==
    /\ currentCallbacks = <<>>
    /\ \A c \in 1..Len(subs) : \A h \in Handles : \A k \in TrackedKeys :
          c \in Range(callbacksCache[h][k]) => <<h, k>> \in lastRun[c]

\* C27's case where it fails: a selector has thrown, its re-run function is
\* still tracking, and a read that the application made afterwards has made
\* it a dependent of a pair its selector did not read.
C27_Witness ==
    \E c \in 1..Len(subs) :
        /\ subs[c].selector.kind = "path"
        /\ c \in Range(currentCallbacks)
        /\ \E h \in Handles : \E k \in AppKeys :
              /\ c \in Range(callbacksCache[h][k])
              /\ <<h, k>> \notin lastRun[c]

\* C28: every applyChange call returns: no flush repeats an invocation
\* without end, whatever the callbacks it invokes write and whether or not
\* they call applyChange themselves.
C28_ApplyChangeTerminates ==
    last.op = "applyChange" => last.ok

\* C28's case where it fails: applyChange has invalidated a subscription to
\* a whose callback calls applyChange to write b, on which no subscription
\* depends, and the flush has invoked it from inside its own invocation, in
\* the state that invocation began in.
C28_Witness ==
    /\ last.op = "applyChange"
    /\ ~last.ok
    /\ \A h \in Handles : callbacksCache[h]["b"] = <<>>
    /\ \E c \in 1..Len(subs) :
          /\ subs[c].callback = "always"
          /\ subs[c].selector.key = "a"
          /\ c \in Range(invalidatedCallbacks)
          /\ Cardinality({i \in DOMAIN calls : calls[i] = c}) > 1

\* C29: a read of a frozen field (a non-writable, non-configurable property
\* of the handle's object) returns the stored value itself, creates no
\* handle, and is not recorded as a dependency: no re-run function is ever a
\* dependent of a frozen field.
C29_FrozenFieldVerbatim ==
    [][/\ \A h \in Handles : \A k \in AppKeys :
            (/\ last'.op = "get"
             /\ last'.proxy = h
             /\ last'.arg = Str(k)
             /\ FrozenField(G, h, k))
            => /\ last'.ok
               /\ last'.v = Reflect_get(heap[RawId(G, h)], k)
               /\ proxies' = proxies
       /\ \A h \in 1..Len(proxies') : \A k \in AppKeys :
            FrozenField(G, h, k)' => callbacksCache'[h][k] = <<>>]_vars

\* A read of the frozen field a of the handle of the frozen object
\* {a: {a: 0}} has just thrown, and has left the handle of {a: 0} behind.
C29_Witness ==
    /\ last.op = "get"
    /\ last.arg = Str("a")
    /\ last.proxy \in Handles
    /\ proxies[last.proxy] = Obj(Root)
    /\ FrozenField(G, last.proxy, "a")
    /\ ~last.ok
    /\ last.v = Proxy(2)
    /\ proxies = <<Obj(Root), Obj(2)>>

====
